---------------------------- MODULE Spec2Model ----------------------------
(***************************************************************************)
(* Colour-model conversion of the repository:                              *)
(*   - ColorsConverterMethods / ColorConverter                             *)
(*       (src/utils/classes/services/color-converter-service.class.ts)     *)
(*   - AbstractConversionMethods, the documented variant of the same class *)
(*                                                                         *)
(* A JavaScript number is modelled as an exact rational <<n, d>> in lowest *)
(* terms with d > 0; NaN is <<0, 0>>.  Math.round(x) is floor(x + 1/2).    *)
(* A string is a sequence of one-character strings.                        *)
(***************************************************************************)
EXTENDS Integers, Sequences, FiniteSets, TLC

(***************************************************************************)
(* JavaScript number arithmetic                                            *)
(***************************************************************************)
RECURSIVE GCD(_, _)
GCD(a, b) == IF b = 0 THEN a ELSE GCD(b, a % b)

Abs(x) == IF x < 0 THEN -x ELSE x

\* n/d divided through by g, the denominator made positive
Reduce(n, d, g) ==
    IF d < 0 THEN <<-(n \div g), -(d \div g)>> ELSE <<n \div g, d \div g>>

\* The number n/d (d # 0) in lowest terms.
Frac(n, d) == Reduce(n, d, GCD(Abs(n), Abs(d)))

Num(i) == <<i, 1>>

NaN == <<0, 0>>

IsNaN(x) == x[2] = 0

IsInteger(x) == x[2] = 1

LCM(a, b) == (a \div GCD(a, b)) * b

\* x + y over the common denominator l
AddOver(x, y, l) == Frac(x[1] * (l \div x[2]) + y[1] * (l \div y[2]), l)

Add(x, y) == IF IsNaN(x) \/ IsNaN(y) THEN NaN ELSE AddOver(x, y, LCM(x[2], y[2]))

Neg(x) == <<-x[1], x[2]>>

Sub(x, y) == Add(x, Neg(y))

\* x * y with the common factors g1 of x[1], y[2] and g2 of y[1], x[2]
\* cancelled first: the product is in lowest terms
MulBy(x, y, g1, g2) ==
    <<(x[1] \div g1) * (y[1] \div g2), (x[2] \div g2) * (y[2] \div g1)>>

Mul(x, y) ==
    IF IsNaN(x) \/ IsNaN(y) THEN NaN
    ELSE MulBy(x, y, GCD(Abs(x[1]), y[2]), GCD(Abs(y[1]), x[2]))

\* x / y for y # 0
Div(x, y) ==
    IF IsNaN(x) \/ IsNaN(y) THEN NaN
    ELSE Mul(x, IF y[1] < 0 THEN <<-y[2], -y[1]>> ELSE <<y[2], y[1]>>)

\* x < y: false when either is NaN
LessOver(x, y, l) == x[1] * (l \div x[2]) < y[1] * (l \div y[2])

Less(x, y) == IF IsNaN(x) \/ IsNaN(y) THEN FALSE ELSE LessOver(x, y, LCM(x[2], y[2]))

\* a comparison that finds no two numbers equal
StrictEq_never(x, y) == FALSE

\* x === y on numbers: NaN equals nothing
StrictEq(x, y) == ~IsNaN(x) /\ ~IsNaN(y) /\ x = y

LessEq(x, y) == StrictEq(x, y) \/ Less(x, y)

Floor(x) == x[1] \div x[2]

\* Math.trunc
Trunc(x) == IF x[1] < 0 THEN -((-x[1]) \div x[2]) ELSE x[1] \div x[2]

\* a rounding that drops the fractional part
MathRound_truncating(x) == IF IsNaN(x) THEN NaN ELSE Num(Trunc(x))

\* Math.round: the nearest integer, a tie going up
MathRound(x) == IF IsNaN(x) THEN NaN ELSE Num(Floor(Add(x, <<1, 2>>)))

\* the % operator: the remainder has the sign of the dividend
Mod(x, m) ==
    IF IsNaN(x) \/ IsNaN(m) THEN NaN
    ELSE Sub(x, Mul(m, Num(Trunc(Div(x, m)))))

MathAbs(x) == <<Abs(x[1]), x[2]>>

MathMin(x, y) == IF IsNaN(x) \/ IsNaN(y) THEN NaN ELSE IF Less(y, x) THEN y ELSE x

MathMax(x, y) == IF IsNaN(x) \/ IsNaN(y) THEN NaN ELSE IF Less(x, y) THEN y ELSE x

MathMin3(x, y, z) == MathMin(MathMin(x, y), z)

MathMax3(x, y, z) == MathMax(MathMax(x, y), z)

(***************************************************************************)
(* number.functions and string.functions                                   *)
(***************************************************************************)
HexDigits == <<"0", "1", "2", "3", "4", "5", "6", "7",
               "8", "9", "a", "b", "c", "d", "e", "f">>

UpperHexDigits == <<"0", "1", "2", "3", "4", "5", "6", "7",
                    "8", "9", "A", "B", "C", "D", "E", "F">>

RECURSIVE ToBase16(_)
ToBase16(n) ==
    IF n < 16 THEN <<HexDigits[n + 1]>>
    ELSE ToBase16(n \div 16) \o <<HexDigits[(n % 16) + 1]>>

\* Two base-16 digits of the fractional part f (0 <= f < 1).
FractionBase16(f) ==
    LET t == Floor(Mul(f, Num(256)))
    IN  <<HexDigits[(t \div 16) + 1], HexDigits[(t % 16) + 1]>>

\* The base-16 numeral of a number, the integer part zero-padded to two
\* digits; a fractional part follows a point.
decimalToHexadecimal(number) ==
    IF IsNaN(number) THEN <<"N", "a", "N">>
    ELSE
    LET magnitude == MathAbs(number)
        whole == Floor(magnitude)
        digits == ToBase16(whole)
        padded == IF Len(digits) < 2 THEN <<"0">> \o digits ELSE digits
        sign == IF number[1] < 0 THEN <<"-">> ELSE <<>>
        fraction == IF IsInteger(number) THEN <<>>
                    ELSE <<".">> \o FractionBase16(Sub(magnitude, Num(whole)))
    IN  sign \o padded \o fraction

HexDigitValue(ch) ==
    IF \E i \in 1..16 : HexDigits[i] = ch
    THEN (CHOOSE i \in 1..16 : HexDigits[i] = ch) - 1
    ELSE IF \E i \in 1..16 : UpperHexDigits[i] = ch
    THEN (CHOOSE i \in 1..16 : UpperHexDigits[i] = ch) - 1
    ELSE -1

RECURSIVE FromBase16(_)
FromBase16(s) ==
    IF Len(s) = 0 THEN 0
    ELSE 16 * FromBase16(SubSeq(s, 1, Len(s) - 1)) + HexDigitValue(s[Len(s)])

\* The value of a base-16 numeral; NaN when it is empty or holds a character
\* that is no hexadecimal digit.
hexadecimalToDecimal(string) ==
    IF Len(string) = 0 \/ \E i \in 1..Len(string) : HexDigitValue(string[i]) < 0
    THEN NaN
    ELSE Num(FromBase16(string))

\* String.prototype.slice(startIndex) for 0 <= startIndex
sliceString(string, startIndex) == SubSeq(string, startIndex + 1, Len(string))

\* String.prototype.substring(startIndex, endIndex) for 0 <= startIndex <= endIndex
getSubtring(string, startIndex, endIndex) ==
    SubSeq(string, startIndex + 1, IF endIndex < Len(string) THEN endIndex ELSE Len(string))

(***************************************************************************)
(* ColorsConverterMethods                                                  *)
(***************************************************************************)
\* A string value: its characters, in a record like every other value.
Str(chars) == [type |-> "string", chars |-> chars]

fromRgbToHex(color) ==
    LET hexadecimalRed == decimalToHexadecimal(color.red)
        hexadecimalGreen == decimalToHexadecimal(color.green)
        hexadecimalBlue == decimalToHexadecimal(color.blue)
    IN  Str(<<"#">> \o hexadecimalRed \o hexadecimalGreen \o hexadecimalBlue \o <<";">>)

\* fromHexToRgb without the removal of the leading #
fromHexToRgb_hashTagKept(color) ==
    LET hexColor == color.chars
    IN  [red |-> hexadecimalToDecimal(getSubtring(hexColor, 0, 2)),
         green |-> hexadecimalToDecimal(getSubtring(hexColor, 2, 4)),
         blue |-> hexadecimalToDecimal(getSubtring(hexColor, 4, 6))]

\* fromHexToRgb with the green group read one character early
fromHexToRgb_greenReadEarly(color) ==
    LET hasHashTag == Len(color.chars) > 0 /\ color.chars[1] = "#"
        channels(hexColor) ==
            [red |-> hexadecimalToDecimal(getSubtring(hexColor, 0, 2)),
             green |-> hexadecimalToDecimal(getSubtring(hexColor, 1, 3)),
             blue |-> hexadecimalToDecimal(getSubtring(hexColor, 4, 6))]
    IN  channels(IF hasHashTag THEN sliceString(color.chars, 1) ELSE color.chars)

\* The length check of fromHexToRgb: it only logs.
fromHexToRgb_colorArgumentIsInvalid(color) ==
    Len(color.chars) < 6 \/ Len(color.chars) > 7

fromHexToRgb(color) ==
    LET hasHashTag == Len(color.chars) > 0 /\ color.chars[1] = "#"
        hexColor == IF hasHashTag THEN sliceString(color.chars, 1) ELSE color.chars
        redBase16 == getSubtring(hexColor, 0, 2)
        greeBase16 == getSubtring(hexColor, 2, 4)
        blueBase16 == getSubtring(hexColor, 4, 6)
    IN  [red |-> hexadecimalToDecimal(redBase16),
         green |-> hexadecimalToDecimal(greeBase16),
         blue |-> hexadecimalToDecimal(blueBase16)]

\* fromRgbToHsl up to its rounding: roundedHue, roundedSaturation and
\* roundedLightness.  Each local constant of the method is the parameter of
\* the step that follows its declaration.
fromRgbToHsl_rounded(color) ==
    LET hueOf(normalizedRed, normalizedGreen, normalizedBlue, max, delta) ==
            IF StrictEq(max, normalizedRed)
            THEN Div(Add(Div(Sub(normalizedGreen, normalizedBlue), delta),
                         IF Less(normalizedGreen, normalizedBlue)
                         THEN Num(6) ELSE Num(0)),
                     Num(6))
            ELSE IF StrictEq(max, normalizedGreen)
            THEN Div(Add(Div(Sub(normalizedBlue, normalizedRed), delta), Num(2)),
                     Num(6))
            ELSE IF StrictEq(max, normalizedBlue)
            THEN Div(Add(Div(Sub(normalizedRed, normalizedGreen), delta), Num(4)),
                     Num(6))
            ELSE NaN
        saturationOf(max, min, delta, lightness) ==
            IF Less(<<1, 2>>, lightness)
            THEN Div(delta, Sub(Sub(Num(2), max), min))
            ELSE Div(delta, Add(max, min))
        rounded(hue, saturation, lightness) ==
            [roundedHue |-> MathRound(Mul(hue, Num(360))),
             roundedSaturation |-> MathRound(Mul(saturation, Num(100))),
             roundedLightness |-> MathRound(Mul(lightness, Num(100)))]
        afterLightness(normalizedRed, normalizedGreen, normalizedBlue,
                       max, min, delta, lightness, isAchromatic) ==
            rounded(IF isAchromatic THEN Num(0)
                    ELSE hueOf(normalizedRed, normalizedGreen, normalizedBlue, max, delta),
                    IF isAchromatic THEN Num(0)
                    ELSE saturationOf(max, min, delta, lightness),
                    lightness)
        afterExtremes(normalizedRed, normalizedGreen, normalizedBlue, max, min) ==
            afterLightness(normalizedRed, normalizedGreen, normalizedBlue, max, min,
                           Sub(max, min), Div(Add(max, min), Num(2)), StrictEq(max, min))
        afterNormalizing(normalizedRed, normalizedGreen, normalizedBlue) ==
            afterExtremes(normalizedRed, normalizedGreen, normalizedBlue,
                          MathMax3(normalizedRed, normalizedGreen, normalizedBlue),
                          MathMin3(normalizedRed, normalizedGreen, normalizedBlue))
    IN  afterNormalizing(Div(color.red, Num(255)),
                         Div(color.green, Num(255)),
                         Div(color.blue, Num(255)))

\* fromRgbToHsl without the reduction of roundedHue modulo 360
fromRgbToHsl_hueNotReduced(color) ==
    LET rounded == fromRgbToHsl_rounded(color)
    IN  [hue |-> rounded.roundedHue,
         saturation |-> rounded.roundedSaturation,
         lightness |-> rounded.roundedLightness]

\* the object fromRgbToHsl returns
fromRgbToHsl_returned(rounded) ==
    [hue |-> Mod(rounded.roundedHue, Num(360)),
     saturation |-> rounded.roundedSaturation,
     lightness |-> rounded.roundedLightness]

fromRgbToHsl(color) == fromRgbToHsl_returned(fromRgbToHsl_rounded(color))

\* The inner function of fromHslToRgb, with the variables it closes over.
calculateComponent(colorValue, hue, normalizedSaturation, normalizedLightness, lightness) ==
    LET component(colorComponent, chroma) ==
            Sub(lightness,
                Mul(chroma,
                    MathMax(Num(-1),
                            MathMin3(Sub(colorComponent, Num(3)),
                                     Sub(Num(9), colorComponent),
                                     Num(1)))))
    IN  component(Mod(Add(Num(colorValue), Div(hue, Num(30))), Num(12)),
                  Mul(normalizedSaturation,
                      MathMin(normalizedLightness, Sub(Num(1), normalizedLightness))))

fromHslToRgb(color) ==
    LET result(hue, lightness, normalizedSaturation, normalizedLightness) ==
            [red |-> calculateComponent(0, hue, normalizedSaturation, normalizedLightness, lightness),
             green |-> calculateComponent(8, hue, normalizedSaturation, normalizedLightness, lightness),
             blue |-> calculateComponent(4, hue, normalizedSaturation, normalizedLightness, lightness)]
    IN  result(color.hue, color.lightness,
               Div(color.saturation, Num(100)), Div(color.lightness, Num(100)))

\* fromRgbToHwb with the blackness taken from the smallest channel
fromRgbToHwb_blacknessOfMin(color) ==
    LET result(hue, whiteness, blackness) ==
            [hue |-> Mod(hue, Num(360)),
             whiteness |-> MathRound(Mul(whiteness, Num(100))),
             blackness |-> MathRound(Mul(blackness, Num(100)))]
        afterNormalizing(normalizedRed, normalizedGreen, normalizedBlue) ==
            result(fromRgbToHsl(color).hue,
                   MathMin3(normalizedRed, normalizedGreen, normalizedBlue),
                   Sub(Num(1), MathMin3(normalizedRed, normalizedGreen, normalizedBlue)))
    IN  afterNormalizing(Div(color.red, Num(255)),
                         Div(color.green, Num(255)),
                         Div(color.blue, Num(255)))

\* fromRgbToHwb with Math.max and Math.min exchanged
fromRgbToHwb_extremesExchanged(color) ==
    LET result(hue, whiteness, blackness) ==
            [hue |-> Mod(hue, Num(360)),
             whiteness |-> MathRound(Mul(whiteness, Num(100))),
             blackness |-> MathRound(Mul(blackness, Num(100)))]
        afterNormalizing(normalizedRed, normalizedGreen, normalizedBlue) ==
            result(fromRgbToHsl(color).hue,
                   MathMax3(normalizedRed, normalizedGreen, normalizedBlue),
                   Sub(Num(1), MathMin3(normalizedRed, normalizedGreen, normalizedBlue)))
    IN  afterNormalizing(Div(color.red, Num(255)),
                         Div(color.green, Num(255)),
                         Div(color.blue, Num(255)))

fromRgbToHwb(color) ==
    LET result(hue, whiteness, blackness) ==
            [hue |-> Mod(hue, Num(360)),
             whiteness |-> MathRound(Mul(whiteness, Num(100))),
             blackness |-> MathRound(Mul(blackness, Num(100)))]
        afterNormalizing(normalizedRed, normalizedGreen, normalizedBlue) ==
            result(fromRgbToHsl(color).hue,
                   MathMin3(normalizedRed, normalizedGreen, normalizedBlue),
                   Sub(Num(1), MathMax3(normalizedRed, normalizedGreen, normalizedBlue)))
    IN  afterNormalizing(Div(color.red, Num(255)),
                         Div(color.green, Num(255)),
                         Div(color.blue, Num(255)))

fromHwbToRgb(color) ==
    LET grey(greyColor) ==
            [red |-> MathRound(Mul(greyColor, Num(100))),
             green |-> MathRound(Mul(greyColor, Num(100))),
             blue |-> MathRound(Mul(greyColor, Num(100)))]
        calculated(rgb, rest, normalizedWhiteness) ==
            [red |-> MathRound(Mul(Add(Mul(rgb.red, rest), normalizedWhiteness), Num(100))),
             green |-> MathRound(Mul(Add(Mul(rgb.green, rest), normalizedWhiteness), Num(100))),
             blue |-> MathRound(Mul(Add(Mul(rgb.blue, rest), normalizedWhiteness), Num(100)))]
        afterNormalizing(hue, normalizedWhiteness, normalizedBlackness) ==
            IF LessEq(Num(1), Add(normalizedWhiteness, normalizedBlackness))
            THEN grey(Div(normalizedWhiteness, Add(normalizedWhiteness, normalizedBlackness)))
            ELSE calculated(
                     fromHslToRgb([hue |-> hue, saturation |-> Num(100), lightness |-> Num(50)]),
                     Sub(Sub(Num(1), normalizedWhiteness), normalizedBlackness),
                     normalizedWhiteness)
    IN  afterNormalizing(color.hue,
                         Div(color.whiteness, Num(100)),
                         Div(color.blackness, Num(100)))

\* fromRgbToHsv dividing by max whatever it is: 0 / 0 is NaN
fromRgbToHsv_unguarded(color) ==
    LET result(hue, normalizedSaturation, normalizedValue) ==
            [hue |-> Mod(hue, Num(360)),
             saturation |-> MathRound(Mul(normalizedSaturation, Num(100))),
             value |-> MathRound(Mul(normalizedValue, Num(100)))]
        afterExtremes(min, max) ==
            result(fromRgbToHsl(color).hue,
                   IF ~StrictEq(max, Num(0)) THEN Sub(Num(1), Div(min, max)) ELSE NaN,
                   Div(max, Num(255)))
    IN  afterExtremes(MathMin3(color.red, color.green, color.blue),
                      MathMax3(color.red, color.green, color.blue))

fromRgbToHsv(color) ==
    LET result(hue, normalizedSaturation, normalizedValue) ==
            [hue |-> Mod(hue, Num(360)),
             saturation |-> MathRound(Mul(normalizedSaturation, Num(100))),
             value |-> MathRound(Mul(normalizedValue, Num(100)))]
        afterExtremes(min, max) ==
            result(fromRgbToHsl(color).hue,
                   IF ~StrictEq(max, Num(0)) THEN Sub(Num(1), Div(min, max)) ELSE Num(0),
                   Div(max, Num(255)))
    IN  afterExtremes(MathMin3(color.red, color.green, color.blue),
                      MathMax3(color.red, color.green, color.blue))

\* The hue-segment decomposition shared by both fromHsvToRgb variants: the
\* normalized red, green and blue after the lightness adjustment.
hsvNormalizedChannels(color) ==
    LET adjusted(segment, lightnessAdjustment) ==
            [normalizedRed |-> Add(segment[1], lightnessAdjustment),
             normalizedGreen |-> Add(segment[2], lightnessAdjustment),
             normalizedBlue |-> Add(segment[3], lightnessAdjustment)]
        segmentOf(hueSegment, chroma, intermediate, zero) ==
            IF LessEq(Num(0), hueSegment) /\ Less(hueSegment, Num(1))
            THEN <<chroma, intermediate, zero>>
            ELSE IF LessEq(Num(1), hueSegment) /\ Less(hueSegment, Num(2))
            THEN <<intermediate, chroma, zero>>
            ELSE IF LessEq(Num(2), hueSegment) /\ Less(hueSegment, Num(3))
            THEN <<zero, chroma, intermediate>>
            ELSE IF LessEq(Num(3), hueSegment) /\ Less(hueSegment, Num(4))
            THEN <<zero, intermediate, chroma>>
            ELSE IF LessEq(Num(4), hueSegment) /\ Less(hueSegment, Num(5))
            THEN <<intermediate, zero, chroma>>
            ELSE <<chroma, zero, intermediate>>
        afterChroma(normalizedValue, chroma, hueSegment) ==
            adjusted(segmentOf(hueSegment, chroma,
                               Mul(chroma, Sub(Num(1),
                                   MathAbs(Sub(Mod(hueSegment, Num(2)), Num(1))))),
                               Num(0)),
                     Sub(normalizedValue, chroma))
        afterNormalizing(normalizedSaturation, normalizedValue) ==
            afterChroma(normalizedValue,
                        Mul(normalizedValue, normalizedSaturation),
                        Div(color.hue, Num(60)))
    IN  afterNormalizing(Div(color.saturation, Num(100)), Div(color.value, Num(100)))

\* the object fromHsvToRgb returns, each channel scaled by scale and rounded
hsvScaled(n, scale) ==
    [red |-> MathRound(Mul(n.normalizedRed, Num(scale))),
     green |-> MathRound(Mul(n.normalizedGreen, Num(scale))),
     blue |-> MathRound(Mul(n.normalizedBlue, Num(scale)))]

fromHsvToRgb(color) == hsvScaled(hsvNormalizedChannels(color), 100)

(***************************************************************************)
(* AbstractConversionMethods: the methods that differ from                 *)
(* ColorsConverterMethods (the RGB-to-X methods are the same text)         *)
(***************************************************************************)
Abstract_calculateComponent(colorValue, hue, normalizedSaturation, normalizedLightness) ==
    LET component(colorComponent, chroma) ==
            Sub(normalizedLightness,
                Mul(chroma,
                    MathMax(Num(-1),
                            MathMin3(Sub(colorComponent, Num(3)),
                                     Sub(Num(9), colorComponent),
                                     Num(1)))))
    IN  component(Mod(Add(Num(colorValue), Div(hue, Num(30))), Num(12)),
                  Mul(normalizedSaturation,
                      MathMin(normalizedLightness, Sub(Num(1), normalizedLightness))))

Abstract_fromHslToRgb(color) ==
    LET result(hue, normalizedSaturation, normalizedLightness) ==
            [red |-> MathRound(Mul(Abstract_calculateComponent(
                         0, hue, normalizedSaturation, normalizedLightness), Num(255))),
             green |-> MathRound(Mul(Abstract_calculateComponent(
                         8, hue, normalizedSaturation, normalizedLightness), Num(255))),
             blue |-> MathRound(Mul(Abstract_calculateComponent(
                         4, hue, normalizedSaturation, normalizedLightness), Num(255)))]
    IN  result(color.hue, Div(color.saturation, Num(100)), Div(color.lightness, Num(100)))

Abstract_fromHwbToRgb(color) ==
    LET grey(greyColor) ==
            [red |-> MathRound(Mul(greyColor, Num(100))),
             green |-> MathRound(Mul(greyColor, Num(100))),
             blue |-> MathRound(Mul(greyColor, Num(100)))]
        calculated(normalizedRed, normalizedGreen, normalizedBlue,
                   rest, normalizedWhiteness) ==
            [red |-> MathRound(Mul(Add(Mul(normalizedRed, rest), normalizedWhiteness), Num(255))),
             green |-> MathRound(Mul(Add(Mul(normalizedGreen, rest), normalizedWhiteness), Num(255))),
             blue |-> MathRound(Mul(Add(Mul(normalizedBlue, rest), normalizedWhiteness), Num(255)))]
        normalized(rgb, rest, normalizedWhiteness) ==
            calculated(Div(rgb.red, Num(255)), Div(rgb.green, Num(255)),
                       Div(rgb.blue, Num(255)), rest, normalizedWhiteness)
        afterNormalizing(hue, normalizedWhiteness, normalizedBlackness) ==
            IF LessEq(Num(1), Add(normalizedWhiteness, normalizedBlackness))
            THEN grey(Div(normalizedWhiteness, Add(normalizedWhiteness, normalizedBlackness)))
            ELSE normalized(
                     Abstract_fromHslToRgb(
                         [hue |-> hue, saturation |-> Num(100), lightness |-> Num(50)]),
                     Sub(Sub(Num(1), normalizedWhiteness), normalizedBlackness),
                     normalizedWhiteness)
    IN  afterNormalizing(color.hue,
                         Div(color.whiteness, Num(100)),
                         Div(color.blackness, Num(100)))

\* fromHsvToRgb of AbstractConversionMethods without Math.round
Abstract_fromHsvToRgb_notRounded(color) ==
    LET n == hsvNormalizedChannels(color)
    IN  [red |-> Mul(n.normalizedRed, Num(255)),
         green |-> Mul(n.normalizedGreen, Num(255)),
         blue |-> Mul(n.normalizedBlue, Num(255))]

Abstract_fromHsvToRgb(color) == hsvScaled(hsvNormalizedChannels(color), 255)

(***************************************************************************)
(* State                                                                   *)
(***************************************************************************)
VARIABLES
    \* a call sequence on the conversion methods of one class
    class,            \* "ColorsConverterMethods" or "AbstractConversionMethods"
    given,            \* the colour the first method is called with
    givenModel,       \* its model
    value,            \* what the last method returned (given before any call)
    valueModel,       \* its model
    applied,          \* the methods called so far, in order
    \* one ColorConverter object and the calls made on it
    color, currentModel, normalizedColor,
    phase,            \* "new" before the constructor, then "constructed" or "threw"
    called,           \* the last method called, with its argument
    outcome,          \* "returned" or "threw"
    returned,         \* what it returned
    normalizations,   \* how many times normalizeToRgb has run
    calls,            \* how many convertTo / getAllColorModels calls were made
    \* several ColorConverter objects and the callers that use them
    converters,       \* the fields of each object
    callers,          \* each caller's call: its object, method, argument, result
    \* IntervalService and the timers of the runtime
    IntervalService_id,   \* the static field id
    arrayOfIds,           \* the static field arrayOfIds
    timers                \* the handles of the intervals that are running

methodVars == <<class, given, givenModel, value, valueModel, applied>>

converterVars == <<color, currentModel, normalizedColor, phase, called, outcome,
                   returned, normalizations, calls>>

callerVars == <<converters, callers>>

intervalVars == <<IntervalService_id, arrayOfIds, timers>>

vars == <<class, given, givenModel, value, valueModel, applied,
          color, currentModel, normalizedColor, phase, called, outcome,
          returned, normalizations, calls, converters, callers,
          IntervalService_id, arrayOfIds, timers>>

\* the value of an unassigned field or of a missing return value
Undefined == [type |-> "undefined"]

\* what a throw statement, or the runtime, throws
TypeError == [type |-> "error", name |-> "TypeError"]

InvalidColorModel == [type |-> "error", name |-> "Error", message |-> "Invalid color model."]

IsError(v) == v \in {TypeError, InvalidColorModel}

NoCall == [name |-> "none", argument |-> "none"]

\* An array value
Array(items) == [type |-> "array", items |-> items]

(***************************************************************************)
(* Inputs                                                                  *)
(***************************************************************************)
ChannelSteps == 4

HueSteps == 6

PercentSteps == 4

MaxCalls == 2

Channels == {(i * 255) \div ChannelSteps : i \in 0..ChannelSteps} \cup {1, 64, 98, 115}

Hues == {(i * 360) \div HueSteps : i \in 0..(HueSteps - 1)} \cup {200, 359}

Percents == {(i * 100) \div PercentSteps : i \in 0..PercentSteps} \cup {28, 35}

HexPairs == {<<"0", "0">>, <<"4", "0">>, <<"7", "3">>, <<"f", "f">>, <<"0", "A">>}

RgbInputs == {[red |-> Num(r), green |-> Num(g), blue |-> Num(b)] :
                 r \in Channels, g \in Channels, b \in Channels}

HslInputs == {[hue |-> Num(h), saturation |-> Num(s), lightness |-> Num(l)] :
                 h \in Hues, s \in Percents, l \in Percents}

HwbInputs == {[hue |-> Num(h), whiteness |-> Num(w), blackness |-> Num(b)] :
                 h \in Hues, w \in Percents, b \in Percents}

HsvInputs == {[hue |-> Num(h), saturation |-> Num(s), value |-> Num(v)] :
                 h \in Hues, s \in Percents, v \in Percents}

HexInputs == {Str(prefix \o p1 \o p2 \o p3) :
                 prefix \in {<<>>, <<"#">>}, p1 \in HexPairs, p2 \in HexPairs, p3 \in HexPairs}

Models == {"hex", "rgb", "hsl", "hwb", "hsv"}

InputsOf(model) ==
    CASE model = "hex" -> HexInputs
      [] model = "rgb" -> RgbInputs
      [] model = "hsl" -> HslInputs
      [] model = "hwb" -> HwbInputs
      [] model = "hsv" -> HsvInputs

IsChannel(x) == IsInteger(x) /\ 0 <= x[1] /\ x[1] <= 255

IsHue(x) == IsInteger(x) /\ 0 <= x[1] /\ x[1] < 360

IsPercent(x) == IsInteger(x) /\ 0 <= x[1] /\ x[1] <= 100

IsValidRgb(c) == IsChannel(c.red) /\ IsChannel(c.green) /\ IsChannel(c.blue)

(***************************************************************************)
(* Calls of the conversion methods, one after the other                    *)
(***************************************************************************)
Classes == {"ColorsConverterMethods", "AbstractConversionMethods"}

\* no caller and no object of the several-callers view
CallersIdle == converters = <<>> /\ callers = <<>>

\* IntervalService as the class declaration leaves it, and no timer running
IntervalsIdle ==
    /\ IntervalService_id = Undefined
    /\ arrayOfIds = <<>>
    /\ timers = {}

ConverterIdle ==
    /\ color = Undefined
    /\ currentModel = "none"
    /\ normalizedColor = Undefined
    /\ phase = "new"
    /\ called = NoCall
    /\ outcome = "none"
    /\ returned = Undefined
    /\ normalizations = 0
    /\ calls = 0

InitMethods ==
    /\ class \in Classes
    /\ givenModel \in Models
    /\ given \in InputsOf(givenModel)
    /\ value = given
    /\ valueModel = givenModel
    /\ applied = <<>>
    /\ ConverterIdle
    /\ CallersIdle
    /\ IntervalsIdle

\* method(value) is called on a value of model `from` and returns one of model `to`
Apply(name, from, to, result) ==
    /\ valueModel = from
    /\ Len(applied) < MaxCalls
    /\ value' = result
    /\ valueModel' = to
    /\ applied' = Append(applied, name)
    /\ UNCHANGED <<class, given, givenModel>>
    /\ UNCHANGED converterVars
    /\ UNCHANGED callerVars
    /\ UNCHANGED intervalVars

Call_fromRgbToHex == Apply("fromRgbToHex", "rgb", "hex", fromRgbToHex(value))

Call_fromHexToRgb == Apply("fromHexToRgb", "hex", "rgb", fromHexToRgb(value))

Call_fromRgbToHsl == Apply("fromRgbToHsl", "rgb", "hsl", fromRgbToHsl(value))

Call_fromHslToRgb ==
    Apply("fromHslToRgb", "hsl", "rgb",
          IF class = "AbstractConversionMethods"
          THEN Abstract_fromHslToRgb(value) ELSE fromHslToRgb(value))

Call_fromRgbToHwb == Apply("fromRgbToHwb", "rgb", "hwb", fromRgbToHwb(value))

Call_fromHwbToRgb ==
    Apply("fromHwbToRgb", "hwb", "rgb",
          IF class = "AbstractConversionMethods"
          THEN Abstract_fromHwbToRgb(value) ELSE fromHwbToRgb(value))

Call_fromRgbToHsv == Apply("fromRgbToHsv", "rgb", "hsv", fromRgbToHsv(value))

Call_fromHsvToRgb ==
    Apply("fromHsvToRgb", "hsv", "rgb",
          IF class = "AbstractConversionMethods"
          THEN Abstract_fromHsvToRgb(value) ELSE fromHsvToRgb(value))

NextMethods ==
    \/ Call_fromRgbToHex
    \/ Call_fromHexToRgb
    \/ Call_fromRgbToHsl
    \/ Call_fromHslToRgb
    \/ Call_fromRgbToHwb
    \/ Call_fromHwbToRgb
    \/ Call_fromRgbToHsv
    \/ Call_fromHsvToRgb

SpecMethods == InitMethods /\ [][NextMethods]_vars

(***************************************************************************)
(* ColorConverter: the class of color-converter-service.class.ts, which    *)
(* extends ColorsConverterMethods, and its documented variant, which       *)
(* extends AbstractConversionMethods.  `class` names the base class.       *)
(***************************************************************************)
ConverterSteps == 2

ConverterChannels == {(i * 255) \div ConverterSteps : i \in 0..ConverterSteps} \cup {64}

ConverterHues == {(i * 360) \div (ConverterSteps + 1) : i \in 0..ConverterSteps} \cup {200}

ConverterPercents == {(i * 100) \div ConverterSteps : i \in 0..ConverterSteps} \cup {28, 35}

ConverterHexPairs == {<<"0", "0">>, <<"7", "3">>, <<"f", "f">>}

Tags == Models \cup {"cmyk"}

ConverterInputsOf(model) ==
    CASE model = "hex" ->
            {Str(prefix \o p1 \o p2 \o p3) : prefix \in {<<>>, <<"#">>},
                p1 \in ConverterHexPairs, p2 \in ConverterHexPairs, p3 \in ConverterHexPairs}
      [] model = "rgb" ->
            {[red |-> Num(r), green |-> Num(g), blue |-> Num(b)] :
                r \in ConverterChannels, g \in ConverterChannels, b \in ConverterChannels}
      [] model = "hsl" ->
            {[hue |-> Num(h), saturation |-> Num(x), lightness |-> Num(l)] :
                h \in ConverterHues, x \in ConverterPercents, l \in ConverterPercents}
      [] model = "hwb" ->
            {[hue |-> Num(h), whiteness |-> Num(w), blackness |-> Num(b)] :
                h \in ConverterHues, w \in ConverterPercents, b \in ConverterPercents}
      [] model = "hsv" ->
            {[hue |-> Num(h), saturation |-> Num(x), value |-> Num(v)] :
                h \in ConverterHues, x \in ConverterPercents, v \in ConverterPercents}
      [] OTHER ->
            {[red |-> Num(64), green |-> Num(98), blue |-> Num(115)],
             [hue |-> Num(200), saturation |-> Num(28), lightness |-> Num(35)]}

\* normalizeToRgb without its case "hsv"
normalizeToRgb_hsvCaseMissing(model, c, old) ==
    CASE model = "hex" -> fromHexToRgb(c)
      [] model = "hsl" -> fromHslToRgb(c)
      [] model = "hwb" -> fromHwbToRgb(c)
      [] OTHER -> old

\* normalizeToRgb: the value of this.normalizedColor when it is done (old: the
\* value before), or what it throws
normalizeToRgb(model, c, old) ==
    CASE model = "hex" -> fromHexToRgb(c)
      [] model = "hsl" -> fromHslToRgb(c)
      [] model = "hwb" -> fromHwbToRgb(c)
      [] model = "hsv" -> fromHsvToRgb(c)
      [] OTHER -> old

Abstract_normalizeToRgb(model, c, old) ==
    CASE model = "hex" -> fromHexToRgb(c)
      [] model = "rgb" -> c
      [] model = "hsl" -> Abstract_fromHslToRgb(c)
      [] model = "hwb" -> Abstract_fromHwbToRgb(c)
      [] model = "hsv" -> Abstract_fromHsvToRgb(c)
      [] OTHER -> InvalidColorModel

\* const { red, green, blue } = color throws a TypeError on undefined
Destructured(c) == IF c = Undefined THEN TypeError ELSE c

\* what convertTo(toModel) returns or throws
convertTo_result(toModel, normalized) ==
    CASE toModel = "hex" ->
            IF IsError(Destructured(normalized)) THEN TypeError ELSE fromRgbToHex(normalized)
      [] toModel = "hsl" ->
            IF IsError(Destructured(normalized)) THEN TypeError ELSE fromRgbToHsl(normalized)
      [] toModel = "hwb" ->
            IF IsError(Destructured(normalized)) THEN TypeError ELSE fromRgbToHwb(normalized)
      [] toModel = "hsv" ->
            IF IsError(Destructured(normalized)) THEN TypeError ELSE fromRgbToHsv(normalized)
      [] OTHER -> normalized

Abstract_convertTo_result(targetModel, normalized) ==
    CASE targetModel = "hex" ->
            IF IsError(Destructured(normalized)) THEN TypeError ELSE fromRgbToHex(normalized)
      [] targetModel = "rgb" -> normalized
      [] targetModel = "hsl" ->
            IF IsError(Destructured(normalized)) THEN TypeError ELSE fromRgbToHsl(normalized)
      [] targetModel = "hwb" ->
            IF IsError(Destructured(normalized)) THEN TypeError ELSE fromRgbToHwb(normalized)
      [] targetModel = "hsv" ->
            IF IsError(Destructured(normalized)) THEN TypeError ELSE fromRgbToHsv(normalized)
      [] OTHER -> InvalidColorModel

\* what getAllColorModels returns or throws
getAllColorModels_result(normalized) ==
    IF IsError(Destructured(normalized)) THEN TypeError
    ELSE Array(<<fromRgbToHex(normalized),
                 fromRgbToHsl(normalized),
                 fromRgbToHwb(normalized),
                 fromRgbToHsv(normalized)>>)

Abstract_getAllColorModels_result(normalized) ==
    IF IsError(Destructured(normalized)) THEN TypeError
    ELSE Array(<<fromRgbToHex(normalized),
                 normalized,
                 fromRgbToHsl(normalized),
                 fromRgbToHwb(normalized),
                 fromRgbToHsv(normalized)>>)

MethodsIdle ==
    /\ given = Undefined
    /\ givenModel = "none"
    /\ value = Undefined
    /\ valueModel = "none"
    /\ applied = <<>>

Init ==
    /\ class \in Classes
    /\ MethodsIdle
    /\ ConverterIdle
    /\ CallersIdle
    /\ IntervalsIdle

\* The constructor's assignments, normalized being what normalizeToRgb made
\* of this.normalizedColor or threw.
Constructed(model, c, normalized) ==
    /\ color' = c
    /\ currentModel' = model
    /\ normalizations' = normalizations + 1
    /\ called' = [name |-> "constructor", argument |-> model]
    /\ normalizedColor' = IF IsError(normalized) THEN Undefined ELSE normalized
    /\ phase' = IF IsError(normalized) THEN "threw" ELSE "constructed"
    /\ outcome' = IF IsError(normalized) THEN "threw" ELSE "returned"
    /\ returned' = IF IsError(normalized) THEN normalized ELSE Undefined
    /\ UNCHANGED calls
    /\ UNCHANGED methodVars
    /\ UNCHANGED callerVars
    /\ UNCHANGED intervalVars

\* new ColorConverter(model, c)
ColorConverter_constructor(model, c) ==
    /\ phase = "new"
    /\ Constructed(model, c,
                   IF class = "AbstractConversionMethods"
                   THEN Abstract_normalizeToRgb(model, c, Undefined)
                   ELSE normalizeToRgb(model, c, Undefined))

\* a call that keeps what it returns in this.color
Returns_keepingResult(name, argument, result) ==
    /\ called' = [name |-> name, argument |-> argument]
    /\ outcome' = IF IsError(result) THEN "threw" ELSE "returned"
    /\ returned' = result
    /\ calls' = calls + 1
    /\ color' = result
    /\ UNCHANGED <<currentModel, normalizedColor, phase, normalizations>>
    /\ UNCHANGED methodVars
    /\ UNCHANGED callerVars
    /\ UNCHANGED intervalVars

\* the call leaves the object as it is and hands back result
Returns(name, argument, result) ==
    /\ called' = [name |-> name, argument |-> argument]
    /\ outcome' = IF IsError(result) THEN "threw" ELSE "returned"
    /\ returned' = result
    /\ calls' = calls + 1
    /\ UNCHANGED <<color, currentModel, normalizedColor, phase, normalizations>>
    /\ UNCHANGED methodVars
    /\ UNCHANGED callerVars
    /\ UNCHANGED intervalVars

\* a convertTo that runs normalizeToRgb once more and returns its result
convertTo_normalizingAgain(toModel) ==
    /\ phase = "constructed"
    /\ calls < MaxCalls
    /\ called' = [name |-> "convertTo", argument |-> toModel]
    /\ outcome' = "returned"
    /\ returned' = normalizedColor
    /\ calls' = calls + 1
    /\ normalizations' = normalizations + 1
    /\ UNCHANGED <<color, currentModel, normalizedColor, phase>>
    /\ UNCHANGED methodVars
    /\ UNCHANGED callerVars
    /\ UNCHANGED intervalVars

convertTo(toModel) ==
    /\ phase = "constructed"
    /\ calls < MaxCalls
    /\ Returns("convertTo", toModel,
               IF class = "AbstractConversionMethods"
               THEN Abstract_convertTo_result(toModel, normalizedColor)
               ELSE convertTo_result(toModel, normalizedColor))

getAllColorModels ==
    /\ phase = "constructed"
    /\ calls < MaxCalls
    /\ Returns("getAllColorModels", "none",
               IF class = "AbstractConversionMethods"
               THEN Abstract_getAllColorModels_result(normalizedColor)
               ELSE getAllColorModels_result(normalizedColor))

Next ==
    \/ \E model \in Tags : \E c \in ConverterInputsOf(model) :
           ColorConverter_constructor(model, c)
    \/ \E toModel \in Tags : convertTo(toModel)
    \/ getAllColorModels

Spec == Init /\ [][Next]_vars

(***************************************************************************)
(* Properties                                                              *)
(***************************************************************************)
Within1(a, b) == LessEq(MathAbs(Sub(a, b)), Num(1))

IsValidHsl(c) == IsHue(c.hue) /\ IsPercent(c.saturation) /\ IsPercent(c.lightness)

IsValidHwb(c) == IsHue(c.hue) /\ IsPercent(c.whiteness) /\ IsPercent(c.blackness)

IsValidHsv(c) == IsHue(c.hue) /\ IsPercent(c.saturation) /\ IsPercent(c.value)

C2_HslRoundTripWithinOne ==
    (/\ givenModel = "rgb"
     /\ IsValidRgb(given)
     /\ applied = <<"fromRgbToHsl", "fromHslToRgb">>)
    => /\ Within1(value.red, given.red)
       /\ Within1(value.green, given.green)
       /\ Within1(value.blue, given.blue)

\* C3: for every valid Rgb, fromRgbToHsl, fromRgbToHwb and fromRgbToHsv return
\* an integer hue in [0, 360) and every percentage an integer in [0, 100].
C3_RgbToXRanges ==
    (/\ givenModel = "rgb"
     /\ IsValidRgb(given)
     /\ Len(applied) = 1)
    => CASE applied[1] = "fromRgbToHsl" -> IsValidHsl(value)
         [] applied[1] = "fromRgbToHwb" -> IsValidHwb(value)
         [] applied[1] = "fromRgbToHsv" -> IsValidHsv(value)
         [] OTHER -> TRUE

\* the hue that rounds to 360 comes back as 0
C3_Witness ==
    /\ givenModel = "rgb"
    /\ given = [red |-> Num(255), green |-> Num(0), blue |-> Num(1)]
    /\ applied = <<"fromRgbToHsl">>
    /\ fromRgbToHsl_rounded(given).roundedHue = Num(360)
    /\ value = [hue |-> Num(0), saturation |-> Num(100), lightness |-> Num(50)]

\* C4: in AbstractConversionMethods, for every valid integer-valued Hsl, Hwb or
\* Hsv, fromHslToRgb, fromHwbToRgb and fromHsvToRgb return red, green and blue
\* that are integers in [0, 255].
C4_AbstractXToRgbChannels ==
    (/\ class = "AbstractConversionMethods"
     /\ Len(applied) = 1
     /\ \/ givenModel = "hsl" /\ IsValidHsl(given)
        \/ givenModel = "hwb" /\ IsValidHwb(given)
        \/ givenModel = "hsv" /\ IsValidHsv(given))
    => IsValidRgb(value)

\* a saturated hsv colour with a channel at each end of the range
C4_Witness ==
    /\ class = "AbstractConversionMethods"
    /\ givenModel = "hsv"
    /\ applied = <<"fromHsvToRgb">>
    /\ given = [hue |-> Num(200), saturation |-> Num(100), value |-> Num(100)]
    /\ value = [red |-> Num(0), green |-> Num(170), blue |-> Num(255)]

IndirectModels == {"hex", "hsl", "hwb", "hsv"}

\* the conversion of model's colour c to RGB by the method of the class
ToRgb(cls, model, c) ==
    CASE model = "hex" -> fromHexToRgb(c)
      [] model = "hsl" ->
            IF cls = "AbstractConversionMethods"
            THEN Abstract_fromHslToRgb(c) ELSE fromHslToRgb(c)
      [] model = "hwb" ->
            IF cls = "AbstractConversionMethods"
            THEN Abstract_fromHwbToRgb(c) ELSE fromHwbToRgb(c)
      [] model = "hsv" ->
            IF cls = "AbstractConversionMethods"
            THEN Abstract_fromHsvToRgb(c) ELSE fromHsvToRgb(c)

\* the conversion of an RGB colour to model by the method fromRgbTo<model>
RgbTo(model, rgb) ==
    CASE model = "hex" -> fromRgbToHex(rgb)
      [] model = "hsl" -> fromRgbToHsl(rgb)
      [] model = "hwb" -> fromRgbToHwb(rgb)
      [] model = "hsv" -> fromRgbToHsv(rgb)

\* C5: for a ColorConverter constructed with source model M in {hex, hsl, hwb,
\* hsv} and a valid value v, convertTo(T) for every T in {hex, hsl, hwb, hsv}
\* returns the RGB-to-T method applied to the M-to-RGB conversion of v.
C5_DispatchEquivalence ==
    (/\ called.name = "convertTo"
     /\ currentModel \in IndirectModels
     /\ called.argument \in IndirectModels)
    => /\ outcome = "returned"
       /\ returned = RgbTo(called.argument, ToRgb(class, currentModel, color))

\* new ColorConverter("hsl", {200, 28, 35}).convertTo("hwb")
C5_Witness ==
    /\ class = "ColorsConverterMethods"
    /\ currentModel = "hsl"
    /\ color = [hue |-> Num(200), saturation |-> Num(28), lightness |-> Num(35)]
    /\ called = [name |-> "convertTo", argument |-> "hwb"]
    /\ outcome = "returned"
    /\ returned = fromRgbToHwb(fromHslToRgb(color))

\* C6: for every source model in {hex, rgb, hsl, hwb, hsv} with a valid value
\* and every target model in the same set, constructing a ColorConverter and
\* calling convertTo(target) never fails and never returns undefined.
C6_DispatchTotal ==
    /\ (called.name = "constructor" /\ currentModel \in Models)
       => outcome = "returned"
    /\ (called.name = "convertTo" /\ currentModel \in Models
           /\ called.argument \in Models)
       => (outcome = "returned" /\ returned # Undefined)

Black == [red |-> Num(0), green |-> Num(0), blue |-> Num(0)]

\* C7: getAllColorModels returns the five representations hex, rgb (passed
\* through), hsl, hwb, hsv of the normalized colour, each what the single
\* RGB-to-X conversion returns; for Rgb{0,0,0} they are "#000000", {0,0,0},
\* hsl {0,0,0}, hwb {0,0,100}, hsv {0,0,0}.
C7_AllColorModels ==
    (called.name = "getAllColorModels" /\ currentModel \in Models)
    => /\ outcome = "returned"
       /\ returned = Array(<<fromRgbToHex(normalizedColor),
                             normalizedColor,
                             fromRgbToHsl(normalizedColor),
                             fromRgbToHwb(normalizedColor),
                             fromRgbToHsv(normalizedColor)>>)
       /\ (currentModel = "rgb" /\ color = Black)
          => returned = Array(<<Str(<<"#", "0", "0", "0", "0", "0", "0">>),
                                Black,
                                [hue |-> Num(0), saturation |-> Num(0), lightness |-> Num(0)],
                                [hue |-> Num(0), whiteness |-> Num(0), blackness |-> Num(100)],
                                [hue |-> Num(0), saturation |-> Num(0), value |-> Num(0)]>>)

\* C8: normalizeToRgb runs at most once for one ColorConverter, and no
\* convertTo or getAllColorModels call runs it again or changes
\* normalizedColor.
C8_NormalizedOnce ==
    /\ [](normalizations <= 1)
    /\ [][called'.name \in {"convertTo", "getAllColorModels"}
          => /\ normalizedColor' = normalizedColor
             /\ normalizations' = normalizations]_vars

\* two conversions were requested of a converter that normalized once
C8_Witness ==
    /\ phase = "constructed"
    /\ currentModel = "hsv"
    /\ normalizedColor # Undefined
    /\ called.name = "getAllColorModels"
    /\ calls >= 2
    /\ normalizations = 1

\* C9: the constructor's normalization fails whenever currentModel is not one
\* of hex, rgb, hsl, hwb, hsv.
C9_InvalidModelFails ==
    (called.name = "constructor" /\ currentModel \notin Models)
    => outcome = "threw"

\* C10: convertTo(target) fails whenever target is not one of hex, rgb, hsl,
\* hwb, hsv, and returns no colour.
C10_UnsupportedTargetFails ==
    (called.name = "convertTo" /\ called.argument \notin Models)
    => outcome = "threw"

(***************************************************************************)
(* The conversion functions called with any argument, valid or not         *)
(***************************************************************************)
\* what hexColorToRgb throws: a string
UnexpectedLength ==
    [type |-> "error", name |-> "string",
     message |-> "Error: Unexpected color argument length passed"]

\* hexColorToRgb of video.functions.ts: fromHexToRgb with a throw where the
\* method logs
hexColorToRgb(hexadecimal) ==
    LET colorArgumentIsInvalid ==
            Len(hexadecimal.chars) < 6 \/ Len(hexadecimal.chars) > 7
        hasHashTag == Len(hexadecimal.chars) > 0 /\ hexadecimal.chars[1] = "#"
        channels(hexColor) ==
            [red |-> hexadecimalToDecimal(getSubtring(hexColor, 0, 2)),
             green |-> hexadecimalToDecimal(getSubtring(hexColor, 2, 4)),
             blue |-> hexadecimalToDecimal(getSubtring(hexColor, 4, 6))]
    IN  IF colorArgumentIsInvalid THEN UnexpectedLength
        ELSE channels(IF hasHashTag THEN sliceString(hexadecimal.chars, 1)
                      ELSE hexadecimal.chars)

MaxChannel == 255

EntryHexPairs == {<<"4", "0">>, <<"6", "2">>, <<"7", "3">>, <<"0", "A">>, <<"f", "f">>}

\* strings of a wrong length or with characters that are no digits
MalformedHexChars ==
    {<<>>,
     <<"1", "2", "3", "4", "5">>,
     <<"#", "1", "2", "3", "4", "5">>,
     <<"1", "2", "3", "4", "5", "6", "7">>,
     <<"#", "1", "2", "3", "4", "5", "6", "7">>,
     <<"Z", "Z", "Z", "Z", "Z", "Z">>,
     <<"#", "Z", "Z", "Z", "Z", "Z", "Z">>,
     <<"4", "0", "6", "2", "7", "g">>}

EntryHexInputs ==
    {Str(prefix \o p1 \o p2 \o p3) :
        prefix \in {<<>>, <<"#">>},
        p1 \in EntryHexPairs, p2 \in EntryHexPairs, p3 \in EntryHexPairs}
    \cup {Str(chars) : chars \in MalformedHexChars}

Rgb(r, g, b) == [red |-> Num(r), green |-> Num(g), blue |-> Num(b)]

EntryRgbInputs ==
    {Rgb(r, r, r) : r \in 0..MaxChannel}
    \cup {Rgb(64, 98, 115), Rgb(255, 0, 0), Rgb(300, 0, 0), Rgb(0, -1, 0), Rgb(0, 0, 256)}

EntryHslInputs ==
    {[hue |-> Num(h), saturation |-> Num(s), lightness |-> Num(l)] :
        h \in {200, 360}, s \in {28, 101}, l \in {35, -1}}

EntryHwbInputs ==
    {[hue |-> Num(h), whiteness |-> Num(w), blackness |-> Num(b)] :
        h \in {200, 360}, w \in {25, 101}, b \in {55, -1}}

EntryHsvInputs ==
    {[hue |-> Num(h), saturation |-> Num(s), value |-> Num(v)] :
        h \in {200, 360}, s \in {44, 101}, v \in {45, -1}}

EntryInputsOf(model) ==
    CASE model = "hex" -> EntryHexInputs
      [] model = "rgb" -> EntryRgbInputs
      [] model = "hsl" -> EntryHslInputs
      [] model = "hwb" -> EntryHwbInputs
      [] model = "hsv" -> EntryHsvInputs

InitEntry ==
    /\ class \in Classes
    /\ givenModel \in Models
    /\ given \in EntryInputsOf(givenModel)
    /\ value = given
    /\ valueModel = givenModel
    /\ applied = <<>>
    /\ ConverterIdle
    /\ CallersIdle
    /\ IntervalsIdle

\* the model of what hexColorToRgb leaves: an Rgb, or nothing when it threw
hexColorToRgb_model(result) == IF result = UnexpectedLength THEN "thrown" ELSE "rgb"

Call_hexColorToRgb ==
    Apply("hexColorToRgb", "hex", hexColorToRgb_model(hexColorToRgb(value)),
          hexColorToRgb(value))

NextEntry ==
    \/ NextMethods
    \/ Call_hexColorToRgb

SpecEntry == InitEntry /\ [][NextEntry]_vars

\* the call failed: it threw, and returned no value
Failed(v) == v \in {UnexpectedLength, TypeError, InvalidColorModel}

\* the characters of a hex string after one optional leading #
Stripped(chars) ==
    IF Len(chars) > 0 /\ chars[1] = "#" THEN SubSeq(chars, 2, Len(chars)) ELSE chars

\* C11: fromHexToRgb and hexColorToRgb fail, and return no Rgb, whenever the
\* string, after one optional leading # is stripped, is not exactly 6
\* characters long.
C11_MalformedLengthFails ==
    (/\ givenModel = "hex"
     /\ Len(applied) = 1
     /\ applied[1] \in {"fromHexToRgb", "hexColorToRgb"}
     /\ Len(Stripped(given.chars)) # 6)
    => Failed(value)

\* the value of each hexadecimal digit, of either case
HexValue ==
    [ch \in {"0", "1", "2", "3", "4", "5", "6", "7", "8", "9",
             "a", "b", "c", "d", "e", "f", "A", "B", "C", "D", "E", "F"} |->
        CASE ch = "0" -> 0 [] ch = "1" -> 1 [] ch = "2" -> 2 [] ch = "3" -> 3
          [] ch = "4" -> 4 [] ch = "5" -> 5 [] ch = "6" -> 6 [] ch = "7" -> 7
          [] ch = "8" -> 8 [] ch = "9" -> 9
          [] ch \in {"a", "A"} -> 10 [] ch \in {"b", "B"} -> 11
          [] ch \in {"c", "C"} -> 12 [] ch \in {"d", "D"} -> 13
          [] ch \in {"e", "E"} -> 14 [] ch \in {"f", "F"} -> 15]

IsHexDigits(chars) == \A i \in 1..Len(chars) : chars[i] \in DOMAIN HexValue

\* C12: fromHexToRgb fails, and returns no Rgb, for every 6-character payload
\* that holds a character that is no hexadecimal digit, e.g. "ZZZZZZ".
C12_NonHexDigitFails ==
    (/\ givenModel = "hex"
     /\ applied = <<"fromHexToRgb">>
     /\ Len(Stripped(given.chars)) = 6
     /\ ~IsHexDigits(Stripped(given.chars)))
    => Failed(value)

\* every numeric field of the given colour lies in its model's interval
IsValidGiven ==
    CASE givenModel = "rgb" -> IsValidRgb(given)
      [] givenModel = "hsl" -> IsValidHsl(given)
      [] givenModel = "hwb" -> IsValidHwb(given)
      [] givenModel = "hsv" -> IsValidHsv(given)
      [] OTHER -> TRUE

\* C13: every conversion method rejects a numeric field outside its model's
\* interval: the call fails and computes no converted value.
C13_OutOfRangeFails ==
    (/\ givenModel \in {"rgb", "hsl", "hwb", "hsv"}
     /\ Len(applied) = 1
     /\ ~IsValidGiven)
    => Failed(value)

\* C14: for every integer r in 0..255, fromRgbToHsl({red: r, green: r,
\* blue: r}) returns exactly hue 0, saturation 0 and lightness
\* round(r / 255 * 100).
C14_AchromaticFixedPoint ==
    (/\ givenModel = "rgb"
     /\ applied = <<"fromRgbToHsl">>
     /\ IsValidRgb(given)
     /\ given.red = given.green
     /\ given.green = given.blue)
    => value = [hue |-> Num(0),
                saturation |-> Num(0),
                lightness |-> Num((200 * given.red[1] + 255) \div 510)]

\* the grey {128, 128, 128} gives lightness 50
C14_Witness ==
    /\ givenModel = "rgb"
    /\ applied = <<"fromRgbToHsl">>
    /\ given = Rgb(128, 128, 128)
    /\ value = [hue |-> Num(0), saturation |-> Num(0), lightness |-> Num(50)]

LowercaseHexDigits ==
    {"0", "1", "2", "3", "4", "5", "6", "7", "8", "9", "a", "b", "c", "d", "e", "f"}

\* the number two hexadecimal digits stand for
PairValue(high, low) == 16 * HexValue[high] + HexValue[low]

\* C15: for every valid Rgb, fromRgbToHex returns exactly '#' followed by six
\* lowercase hexadecimal digits and nothing else, two zero-padded digits per
\* channel in red, green, blue order; {255, 0, 0} gives "#ff0000".
C15_HexFormat ==
    (/\ givenModel = "rgb"
     /\ IsValidRgb(given)
     /\ applied = <<"fromRgbToHex">>)
    => /\ Len(value.chars) = 7
       /\ value.chars[1] = "#"
       /\ \A i \in 2..7 : value.chars[i] \in LowercaseHexDigits
       /\ PairValue(value.chars[2], value.chars[3]) = given.red[1]
       /\ PairValue(value.chars[4], value.chars[5]) = given.green[1]
       /\ PairValue(value.chars[6], value.chars[7]) = given.blue[1]

\* the Rgb that six hexadecimal digits stand for
RgbOfDigits(d) ==
    Rgb(PairValue(d[1], d[2]), PairValue(d[3], d[4]), PairValue(d[5], d[6]))

\* C16: for every string d of exactly 6 hexadecimal digits, fromHexToRgb(d)
\* and fromHexToRgb('#' + d) return the same Rgb, whose red, green and blue
\* are the base-16 values of the digit pairs 1-2, 3-4 and 5-6 of d.
C16_HexToRgbValues ==
    (/\ givenModel = "hex"
     /\ applied = <<"fromHexToRgb">>
     /\ Len(Stripped(given.chars)) = 6
     /\ IsHexDigits(Stripped(given.chars)))
    => value = RgbOfDigits(Stripped(given.chars))

\* "#406273" gives {64, 98, 115}
C16_Witness ==
    /\ givenModel = "hex"
    /\ applied = <<"fromHexToRgb">>
    /\ given = Str(<<"#", "4", "0", "6", "2", "7", "3">>)
    /\ value = Rgb(64, 98, 115)

\* the integer nearest to n / d (d > 0), a tie going up
RoundDiv(n, d) == (2 * n + d) \div (2 * d)

Max3(a, b, c) == IF a >= b /\ a >= c THEN a ELSE IF b >= c THEN b ELSE c

Min3(a, b, c) == IF a <= b /\ a <= c THEN a ELSE IF b <= c THEN b ELSE c

\* The reference min/max/delta formula on the integer channels r, g, b, each
\* quotient rounded once: with max, min and delta of the channels over 255,
\* lightness = 100 (max + min) / 2, saturation = 100 delta / (2 - max - min)
\* when (max + min) / 2 > 0.5 and 100 delta / (max + min) otherwise, and the
\* hue fraction of the max channel scaled to 360.
ReferenceHsl(r, g, b) ==
    LET max == Max3(r, g, b)
        min == Min3(r, g, b)
        delta == max - min
        degrees ==
            IF max = r THEN RoundDiv(60 * (g - b) + (IF g < b THEN 360 * delta ELSE 0), delta)
            ELSE IF max = g THEN RoundDiv(60 * (b - r) + 120 * delta, delta)
            ELSE RoundDiv(60 * (r - g) + 240 * delta, delta)
    IN  [hue |-> Num(IF delta = 0 THEN 0 ELSE degrees % 360),
         saturation |-> Num(IF delta = 0 THEN 0
                            ELSE IF max + min > 255
                            THEN RoundDiv(100 * delta, 510 - max - min)
                            ELSE RoundDiv(100 * delta, max + min)),
         lightness |-> Num(RoundDiv(100 * (max + min), 510))]

ConverterIds == {"a", "b"}

CallerIds == {"first", "second"}

\* the arguments of new ColorConverter(currentModel, color)
ConcurrentInputs ==
    {[currentModel |-> "hex", color |-> Str(<<"#", "4", "0", "6", "2", "7", "3">>)],
     [currentModel |-> "rgb", color |-> Rgb(64, 98, 115)],
     [currentModel |-> "hsl",
      color |-> [hue |-> Num(200), saturation |-> Num(28), lightness |-> Num(35)]],
     [currentModel |-> "hwb",
      color |-> [hue |-> Num(200), whiteness |-> Num(25), blackness |-> Num(55)]]}

\* the fields of new ColorConverter(model, c) of class cls
NewConverter(cls, model, c) ==
    [currentModel |-> model,
     color |-> c,
     normalizedColor |->
         IF cls = "AbstractConversionMethods"
         THEN Abstract_normalizeToRgb(model, c, Undefined)
         ELSE normalizeToRgb(model, c, Undefined)]

IdleCaller ==
    [state |-> "idle", converter |-> "none", name |-> "none", argument |-> "none",
     read |-> Undefined, result |-> Undefined]

InitConcurrent ==
    /\ class \in Classes
    /\ MethodsIdle
    /\ ConverterIdle
    /\ converters \in [ConverterIds ->
           {NewConverter(class, i.currentModel, i.color) : i \in ConcurrentInputs}]
    /\ callers = [k \in CallerIds |-> IdleCaller]
    /\ IntervalsIdle

\* what the method name returns for this.normalizedColor = normalized
CallResult(cls, name, argument, normalized) ==
    IF name = "getAllColorModels"
    THEN IF cls = "AbstractConversionMethods"
         THEN Abstract_getAllColorModels_result(normalized)
         ELSE getAllColorModels_result(normalized)
    ELSE IF cls = "AbstractConversionMethods"
         THEN Abstract_convertTo_result(argument, normalized)
         ELSE convertTo_result(argument, normalized)

\* caller k enters method name of object id: it reads this.normalizedColor
Begin(k, id, name, argument) ==
    /\ callers[k].state = "idle"
    /\ callers' = [callers EXCEPT ![k] =
           [state |-> "running", converter |-> id, name |-> name,
            argument |-> argument, read |-> converters[id].normalizedColor,
            result |-> Undefined]]
    /\ UNCHANGED converters
    /\ UNCHANGED methodVars
    /\ UNCHANGED converterVars
    /\ UNCHANGED intervalVars

\* a return that consumes the object's normalizedColor
Finish_consuming(k) ==
    /\ callers[k].state = "running"
    /\ callers' = [callers EXCEPT ![k].state = "done",
                                  ![k].result =
                                      CallResult(class, callers[k].name,
                                                 callers[k].argument, callers[k].read)]
    /\ converters' = [converters EXCEPT ![callers[k].converter].normalizedColor =
                         Undefined]
    /\ UNCHANGED methodVars
    /\ UNCHANGED converterVars
    /\ UNCHANGED intervalVars

\* caller k's method returns (or throws) what it made of the colour it read
Finish(k) ==
    /\ callers[k].state = "running"
    /\ callers' = [callers EXCEPT ![k].state = "done",
                                  ![k].result =
                                      CallResult(class, callers[k].name,
                                                 callers[k].argument, callers[k].read)]
    /\ UNCHANGED converters
    /\ UNCHANGED methodVars
    /\ UNCHANGED converterVars
    /\ UNCHANGED intervalVars

NextConcurrent ==
    \/ \E k \in CallerIds, id \in ConverterIds, toModel \in Models :
           Begin(k, id, "convertTo", toModel)
    \/ \E k \in CallerIds, id \in ConverterIds :
           Begin(k, id, "getAllColorModels", "none")
    \/ \E k \in CallerIds : Finish(k)

SpecConcurrent == InitConcurrent /\ [][NextConcurrent]_vars

\* what the call returns on an object of its own that no other caller uses
RunAlone(cls, model, c, name, argument) ==
    CallResult(cls, name, argument, NewConverter(cls, model, c).normalizedColor)

\* C19: conversion calls of concurrent callers, on the same ColorConverter or
\* on different ones, in any interleaving, each return what the call returns
\* when run alone, and no call alters an object's state.
C19_CallsIndependent ==
    /\ [](\A k \in CallerIds :
            callers[k].state = "done"
            => callers[k].result =
                   RunAlone(class,
                            converters[callers[k].converter].currentModel,
                            converters[callers[k].converter].color,
                            callers[k].name, callers[k].argument))
    /\ [][converters' = converters]_vars

\* the second caller's call on object a has returned while the first
\* caller's call on the same object is under way
C19_Witness ==
    /\ callers["first"].state = "running"
    /\ callers["second"].state = "done"
    /\ callers["first"].converter = "a"
    /\ callers["second"].converter = "a"
    /\ callers["first"].name = "getAllColorModels"
    /\ callers["second"].name = "convertTo"
    /\ callers["second"].argument = "hwb"
    /\ converters["a"].currentModel = "hsl"
    /\ callers["second"].result # Undefined

(***************************************************************************)
(* array.functions: toSpliced                                              *)
(***************************************************************************)
MaxArrayLength == 3

Elements == {"a", "b"}

ArrayInputs == UNION {[1..n -> Elements] : n \in 0..MaxArrayLength}

ItemsInputs == {<<>>, <<"x">>, <<"x", "y">>}

\* Array.prototype.splice: the index it starts at
splice_actualStart(len, startIndex) ==
    IF startIndex < 0
    THEN IF len + startIndex < 0 THEN 0 ELSE len + startIndex
    ELSE IF startIndex > len THEN len ELSE startIndex

\* Array.prototype.splice: the number of elements it removes
splice_actualDeleteCount(len, actualStart, deleteCount) ==
    IF deleteCount < 0 THEN 0
    ELSE IF deleteCount > len - actualStart THEN len - actualStart
    ELSE deleteCount

\* Array.prototype.splice on the elements array: the array it returns and
\* the elements it leaves in the array it was called on
splice(array, startIndex, deleteCount, items) ==
    LET spliced(actualStart, actualDeleteCount) ==
            [returned |-> SubSeq(array, actualStart + 1, actualStart + actualDeleteCount),
             array |-> SubSeq(array, 1, actualStart) \o items
                       \o SubSeq(array, actualStart + actualDeleteCount + 1, Len(array))]
        from(actualStart) ==
            spliced(actualStart,
                    splice_actualDeleteCount(Len(array), actualStart, deleteCount))
    IN  from(splice_actualStart(Len(array), startIndex))

\* toSpliced returns what originalArray.splice returns
toSpliced(originalArray, startIndex, deleteCount, items) ==
    splice(originalArray, startIndex, deleteCount, items)

InitArray ==
    /\ class = "none"
    /\ givenModel = "array"
    /\ given \in {Array(a) : a \in ArrayInputs}
    /\ value = Undefined
    /\ valueModel = "none"
    /\ applied = <<>>
    /\ ConverterIdle
    /\ CallersIdle
    /\ IntervalsIdle

\* toSpliced(given, startIndex, deleteCount, ...items): given is the array
\* object, changed in place; value is the array returned
Call_toSpliced(startIndex, deleteCount, items) ==
    /\ applied = <<>>
    /\ applied' = <<[name |-> "toSpliced", originalArray |-> given.items,
                     startIndex |-> startIndex, deleteCount |-> deleteCount,
                     items |-> items]>>
    /\ given' = Array(toSpliced(given.items, startIndex, deleteCount, items).array)
    /\ value' = Array(toSpliced(given.items, startIndex, deleteCount, items).returned)
    /\ valueModel' = "array"
    /\ UNCHANGED <<class, givenModel>>
    /\ UNCHANGED converterVars
    /\ UNCHANGED callerVars
    /\ UNCHANGED intervalVars

NextArray ==
    \E startIndex \in -1..(MaxArrayLength + 1), deleteCount \in -1..MaxArrayLength,
       items \in ItemsInputs :
        Call_toSpliced(startIndex, deleteCount, items)

SpecArray == InitArray /\ [][NextArray]_vars

\* the contents of array with count elements removed at index start (both
\* within the array) and items put in their place
Updated(array, start, count, items) ==
    [i \in 1..(Len(array) - count + Len(items)) |->
        IF i <= start THEN array[i]
        ELSE IF i <= start + Len(items) THEN items[i - start]
        ELSE array[i - Len(items) + count]]

\* C20: toSpliced(originalArray, startIndex, deleteCount, ...items) returns
\* the updated array: the contents of originalArray with deleteCount elements
\* removed at startIndex and items inserted there, not the removed elements.
C20_ReturnsUpdatedArray ==
    (/\ applied # <<>>
     /\ applied[1].startIndex \in 0..Len(applied[1].originalArray)
     /\ applied[1].deleteCount
            \in 0..(Len(applied[1].originalArray) - applied[1].startIndex))
    => value = Array(Updated(applied[1].originalArray, applied[1].startIndex,
                             applied[1].deleteCount, applied[1].items))

(***************************************************************************)
(* The conversion methods against their reference formulas                 *)
(***************************************************************************)
\* channel colorValue (0 red, 8 green, 4 blue) of hsl(hue, 100, 50),
\* normalized to 0..1
SaturatedChannel(colorValue, hue) ==
    LET channel(k) ==
            Sub(<<1, 2>>,
                Mul(<<1, 2>>,
                    MathMax(Num(-1), MathMin3(Sub(k, Num(3)), Sub(Num(9), k), Num(1)))))
    IN  channel(Mod(Add(Num(colorValue), Div(hue, Num(30))), Num(12)))

\* the reference inverse of HWB: the grey level, or the blend of the fully
\* saturated colour, scaled to 0..255
ReferenceHwbToRgb(c) ==
    LET grey(level) ==
            [red |-> MathRound(Mul(level, Num(255))),
             green |-> MathRound(Mul(level, Num(255))),
             blue |-> MathRound(Mul(level, Num(255)))]
        blend(channel, w, b) ==
            MathRound(Mul(Add(Mul(channel, Sub(Sub(Num(1), w), b)), w), Num(255)))
        of(w, b) ==
            IF LessEq(Num(1), Add(w, b))
            THEN grey(Div(w, Add(w, b)))
            ELSE [red |-> blend(SaturatedChannel(0, c.hue), w, b),
                  green |-> blend(SaturatedChannel(8, c.hue), w, b),
                  blue |-> blend(SaturatedChannel(4, c.hue), w, b)]
    IN  of(Div(c.whiteness, Num(100)), Div(c.blackness, Num(100)))

\* C21: for every valid Hwb, fromHwbToRgb of ColorsConverterMethods returns
\* the reference inverse: the grey level whiteness / (whiteness + blackness)
\* scaled to 0..255 on all three channels when whiteness + blackness >= 100,
\* and otherwise round(255 * (c * (1 - w - b) + w)) for each channel c of
\* hsl(hue, 100, 50).
C21_HwbToRgbReference ==
    (/\ class = "ColorsConverterMethods"
     /\ givenModel = "hwb"
     /\ IsValidHwb(given)
     /\ applied = <<"fromHwbToRgb">>)
    => value = ReferenceHwbToRgb(given)

\* C22: for every valid Hsv, fromHsvToRgb of ColorsConverterMethods scales to
\* the 0..255 range: the largest returned channel is round(255 * value / 100)
\* and the smallest is round(255 * (value / 100) * (1 - saturation / 100)).
C22_HsvToRgbScaled ==
    (/\ class = "ColorsConverterMethods"
     /\ givenModel = "hsv"
     /\ IsValidHsv(given)
     /\ applied = <<"fromHsvToRgb">>)
    => /\ MathMax3(value.red, value.green, value.blue)
              = MathRound(Mul(Num(255), Div(given.value, Num(100))))
       /\ MathMin3(value.red, value.green, value.blue)
              = MathRound(Mul(Mul(Num(255), Div(given.value, Num(100))),
                              Sub(Num(1), Div(given.saturation, Num(100)))))

\* C23: for every valid Rgb, fromRgbToHwb returns whiteness
\* round(100 * min / 255), blackness round(100 * (1 - max / 255)), min and max
\* being the smallest and largest of red, green, blue, and the hue that
\* fromRgbToHsl returns for the same Rgb.
C23_RgbToHwbFormula ==
    (/\ givenModel = "rgb"
     /\ IsValidRgb(given)
     /\ applied = <<"fromRgbToHwb">>)
    => /\ value.whiteness
              = Num(RoundDiv(100 * Min3(given.red[1], given.green[1], given.blue[1]), 255))
       /\ value.blackness
              = Num(RoundDiv(100 * (255 - Max3(given.red[1], given.green[1], given.blue[1])),
                             255))
       /\ value.hue = fromRgbToHsl(given).hue

\* {64, 98, 115} gives hwb {200, 25, 55}
C23_Witness ==
    /\ givenModel = "rgb"
    /\ applied = <<"fromRgbToHwb">>
    /\ given = Rgb(64, 98, 115)
    /\ value = [hue |-> Num(200), whiteness |-> Num(25), blackness |-> Num(55)]

IsAchromaticGiven == given.red = given.green /\ given.green = given.blue

\* C29: for every valid Rgb, the whiteness and blackness that fromRgbToHwb
\* returns sum to at most 100, and to exactly 100 when red = green = blue, so
\* that fromHwbToRgb called on the result of an achromatic colour finds
\* normalizedWhiteness + normalizedBlackness >= 1 and returns a grey.
C29_WhitenessPlusBlackness ==
    (/\ givenModel = "rgb"
     /\ IsValidRgb(given)
     /\ Len(applied) >= 1
     /\ applied[1] = "fromRgbToHwb")
    => /\ Len(applied) = 1
          => /\ LessEq(Add(value.whiteness, value.blackness), Num(100))
             /\ IsAchromaticGiven
                => /\ Add(value.whiteness, value.blackness) = Num(100)
                   /\ LessEq(Num(1), Add(Div(value.whiteness, Num(100)),
                                         Div(value.blackness, Num(100))))
       /\ (Len(applied) = 2 /\ applied[2] = "fromHwbToRgb" /\ IsAchromaticGiven)
          => (value.red = value.green /\ value.green = value.blue)

\* the grey {128, 128, 128}, whose hwb is {0, 50, 50}, was given back to
\* fromHwbToRgb
C29_Witness ==
    /\ givenModel = "rgb"
    /\ given = Rgb(128, 128, 128)
    /\ applied = <<"fromRgbToHwb", "fromHwbToRgb">>
    /\ fromRgbToHwb(given) = [hue |-> Num(0), whiteness |-> Num(50), blackness |-> Num(50)]
    /\ value = Rgb(50, 50, 50)

(***************************************************************************)
(* video.functions: the colour functions and transformColorModel           *)
(***************************************************************************)
\* rgbColorToHsl: the text of fromRgbToHsl up to the rounding, and a return
\* of roundedHue as it is
rgbColorToHsl(red, green, blue) ==
    LET result(rounded) ==
            [hue |-> rounded.roundedHue,
             saturation |-> rounded.roundedSaturation,
             lightness |-> rounded.roundedLightness]
    IN  result(fromRgbToHsl_rounded([red |-> red, green |-> green, blue |-> blue]))

InvalidHslValues ==
    [type |-> "error", name |-> "Error", message |-> "Invalid HSL color values."]

hasInvalidHslArguments(hue, saturation, lightness) ==
    \/ Less(hue, Num(0))
    \/ Less(Num(360), hue)
    \/ Less(saturation, Num(0))
    \/ Less(Num(100), saturation)
    \/ Less(lightness, Num(0))
    \/ Less(Num(100), lightness)

\* String.prototype.padStart(2, "0")
padStart(string) ==
    IF Len(string) = 0 THEN <<"0", "0">>
    ELSE IF Len(string) = 1 THEN <<"0">> \o string
    ELSE string

hslColorToHex(hue, saturation, lightness) ==
    LET hex(channel, lightnessAdjustment) ==
            padStart(decimalToHexadecimal(
                MathRound(Mul(Add(channel, lightnessAdjustment), Num(255)))))
        combined(rgb, lightnessAdjustment) ==
            Str(<<"#">> \o hex(rgb[1], lightnessAdjustment)
                        \o hex(rgb[2], lightnessAdjustment)
                        \o hex(rgb[3], lightnessAdjustment))
        segmentOf(intermediateHue, chroma, x, zero) ==
            IF LessEq(Num(0), intermediateHue) /\ Less(intermediateHue, Num(1))
            THEN <<chroma, x, zero>>
            ELSE IF LessEq(Num(1), intermediateHue) /\ Less(intermediateHue, Num(2))
            THEN <<x, chroma, zero>>
            ELSE IF LessEq(Num(2), intermediateHue) /\ Less(intermediateHue, Num(3))
            THEN <<zero, chroma, x>>
            ELSE IF LessEq(Num(3), intermediateHue) /\ Less(intermediateHue, Num(4))
            THEN <<zero, x, chroma>>
            ELSE IF LessEq(Num(4), intermediateHue) /\ Less(intermediateHue, Num(5))
            THEN <<x, zero, chroma>>
            ELSE <<chroma, zero, x>>
        afterChroma(normalizedLightness, chroma, intermediateHue) ==
            combined(segmentOf(intermediateHue, chroma,
                               Mul(chroma, Sub(Num(1),
                                   MathAbs(Sub(Mod(intermediateHue, Num(2)), Num(1))))),
                               Num(0)),
                     Sub(normalizedLightness, Div(chroma, Num(2))))
        afterNormalizing(normalizedHue, normalizedSaturation, normalizedLightness) ==
            afterChroma(normalizedLightness,
                        Mul(Sub(Num(1),
                                MathAbs(Sub(Mul(Num(2), normalizedLightness), Num(1)))),
                            normalizedSaturation),
                        Mul(normalizedHue, Num(6)))
    IN  IF hasInvalidHslArguments(hue, saturation, lightness) THEN InvalidHslValues
        ELSE afterNormalizing(Div(hue, Num(360)), Div(saturation, Num(100)),
                              Div(lightness, Num(100)))

hslColorToHwb(hue, saturation, lightness) ==
    LET scaled(hueValue, whiteness, blackness) ==
            [hue |-> MathRound(Mul(hueValue, Num(360))),
             whiteness |-> MathRound(Mul(whiteness, Num(100))),
             blackness |-> MathRound(Mul(blackness, Num(100)))]
        afterNormalizing(normalizedHue, normalizedSaturation, normalizedLightness) ==
            scaled(normalizedHue,
                   Sub(Num(1), MathMax(normalizedSaturation, normalizedLightness)),
                   Sub(Num(1), MathMin(normalizedSaturation, normalizedLightness)))
    IN  IF hasInvalidHslArguments(hue, saturation, lightness) THEN InvalidHslValues
        ELSE afterNormalizing(Div(hue, Num(360)), Div(saturation, Num(100)),
                              Div(lightness, Num(100)))

\* hwbToHsv, for a blackness other than 1 (its value is then not 0)
hwbToHsv(hue, whiteness, blackness) ==
    LET result(valueOfColor) ==
            [hue |-> hue,
             saturation |-> Sub(Num(1), Div(whiteness, valueOfColor)),
             value |-> valueOfColor]
    IN  result(Sub(Num(1), blackness))

\* hsvToHsl: the saturation computed before hasMinOrMaxBrightness is NaN
\* (0 / 0) exactly when hasMinOrMaxBrightness replaces it with 0
hsvToHsl(hue, saturation, valueOfColor) ==
    LET result(normalizedSaturation, normalizedValue, convertedLightness) ==
            [hue |-> hue,
             saturation |->
                 IF StrictEq(convertedLightness, Num(0))
                    \/ StrictEq(convertedLightness, Num(1))
                 THEN Num(0)
                 ELSE IF LessEq(convertedLightness, <<1, 2>>)
                 THEN Mul(Div(Mul(normalizedSaturation, normalizedValue),
                              Mul(Num(2), convertedLightness)),
                          Num(100))
                 ELSE Mul(Div(Mul(normalizedSaturation, normalizedValue),
                              Sub(Num(2), Mul(Num(2), convertedLightness))),
                          Num(100)),
             lightness |-> Mul(convertedLightness, Num(100))]
        afterNormalizing(normalizedSaturation, normalizedValue) ==
            result(normalizedSaturation, normalizedValue,
                   Mul(Sub(Num(2), normalizedSaturation), Div(normalizedValue, Num(2))))
    IN  afterNormalizing(Div(saturation, Num(100)), Div(valueOfColor, Num(100)))

UnsupportedWanted ==
    [type |-> "error", name |-> "Error",
     message |-> "Color model conversion error: Unsupported wanted color model"]

\* what a function of video.functions throws
Thrown(v) == v \in {UnexpectedLength, InvalidHslValues, UnsupportedWanted}

\* String.prototype.toLowerCase on the model names used
toLowerCase(string) ==
    CASE string = "HEX" -> "hex"
      [] string = "RGB" -> "rgb"
      [] string = "HSL" -> "hsl"
      [] OTHER -> string

\* String.prototype.includes on the lower-case model names used, none of
\* which is part of another
includes(string, searchString) == string = searchString

transformColorModel(colorValue, initialColorModel, wantedColorModel) ==
    LET throughHex(hexColor) ==
            IF Thrown(hexColor) THEN hexColor ELSE hexColorToRgb(hexColor)
        throughHsl(hslColor) ==
            hslColorToHex(hslColor.hue, hslColor.saturation, hslColor.lightness)
        throughRgb(rgbColor) ==
            IF Thrown(rgbColor) THEN rgbColor
            ELSE rgbColorToHsl(rgbColor.red, rgbColor.green, rgbColor.blue)
        converted(initial, wanted) ==
            IF includes(initial, "hex") /\ includes(wanted, "rgb")
            THEN hexColorToRgb(colorValue)
            ELSE IF includes(initial, "rgb") /\ includes(wanted, "hsl")
            THEN rgbColorToHsl(colorValue.red, colorValue.green, colorValue.blue)
            ELSE IF includes(initial, "hsl") /\ includes(wanted, "hex")
            THEN hslColorToHex(colorValue.hue, colorValue.saturation, colorValue.lightness)
            ELSE IF includes(initial, "hsl") /\ includes(wanted, "hwb")
            THEN hslColorToHwb(colorValue.hue, colorValue.saturation, colorValue.lightness)
            ELSE IF includes(initial, "hwb") /\ includes(wanted, "hsv")
            THEN hwbToHsv(colorValue.hue, colorValue.whiteness, colorValue.blackness)
            ELSE IF includes(initial, "hsv") /\ includes(wanted, "hsl")
            THEN hsvToHsl(colorValue.hue, colorValue.saturation, colorValue.value)
            ELSE IF includes(initial, "hsl") /\ includes(wanted, "rgb")
            THEN throughHex(hslColorToHex(colorValue.hue, colorValue.saturation,
                                          colorValue.lightness))
            ELSE IF includes(initial, "rgb") /\ includes(wanted, "hex")
            THEN throughHsl(rgbColorToHsl(colorValue.red, colorValue.green,
                                          colorValue.blue))
            ELSE IF includes(initial, "hex") /\ includes(wanted, "hsl")
            THEN throughRgb(hexColorToRgb(colorValue))
            ELSE UnsupportedWanted
    IN  converted(toLowerCase(initialColorModel), toLowerCase(wantedColorModel))

FunctionInputsOf(model) ==
    IF model = "rgb"
    THEN ConverterInputsOf("rgb") \cup {Rgb(255, 0, 1), Rgb(64, 98, 115)}
    ELSE ConverterInputsOf(model)

\* the wantedColorModel arguments: the model names, one in upper case and one
\* that names no model
WantedModels == Models \cup {"RGB", "cmyk"}

\* the entry of applied for a call transformColorModel(_, _, wantedColorModel)
transformColorModel_to(wantedColorModel) ==
    CASE wantedColorModel = "hex" -> "transformColorModel to hex"
      [] wantedColorModel = "rgb" -> "transformColorModel to rgb"
      [] wantedColorModel = "hsl" -> "transformColorModel to hsl"
      [] wantedColorModel = "hwb" -> "transformColorModel to hwb"
      [] wantedColorModel = "hsv" -> "transformColorModel to hsv"
      [] wantedColorModel = "RGB" -> "transformColorModel to RGB"
      [] OTHER -> "transformColorModel to cmyk"

InitFunctions ==
    /\ class = "none"
    /\ givenModel \in Models
    /\ given \in FunctionInputsOf(givenModel)
    /\ value = given
    /\ valueModel = givenModel
    /\ applied = <<>>
    /\ ConverterIdle
    /\ CallersIdle
    /\ IntervalsIdle

\* transformColorModel(value, valueModel, wantedColorModel), the first call made
Call_transformColorModel(wantedColorModel) ==
    /\ applied = <<>>
    /\ Apply(transformColorModel_to(wantedColorModel), valueModel,
             IF Thrown(transformColorModel(value, valueModel, wantedColorModel))
             THEN "thrown" ELSE toLowerCase(wantedColorModel),
             transformColorModel(value, valueModel, wantedColorModel))

\* rgbColorToHsl(value.red, value.green, value.blue), the first call made
Call_rgbColorToHsl ==
    /\ applied = <<>>
    /\ Apply("rgbColorToHsl", "rgb", "hsl",
             rgbColorToHsl(value.red, value.green, value.blue))

NextFunctions ==
    \/ \E wantedColorModel \in WantedModels : Call_transformColorModel(wantedColorModel)
    \/ Call_rgbColorToHsl
    \/ Call_hexColorToRgb

SpecFunctions == InitFunctions /\ [][NextFunctions]_vars

\* C25: for every valid RGB triple, rgbColorToHsl(red, green, blue) returns
\* the same hue, saturation and lightness as fromRgbToHsl({red, green, blue}).
C25_FunctionalEqualsClass ==
    (/\ givenModel = "rgb"
     /\ IsValidRgb(given)
     /\ applied = <<"rgbColorToHsl">>)
    => /\ value.hue = fromRgbToHsl(given).hue
       /\ value.saturation = fromRgbToHsl(given).saturation
       /\ value.lightness = fromRgbToHsl(given).lightness

\* C26: for every valid Hsl c, transformColorModel(c, "hsl", "hwb") equals
\* fromRgbToHwb applied to transformColorModel(c, "hsl", "rgb"), the two-hop
\* HSL-to-RGB-to-HWB result.
C26_HslToHwbTwoHop ==
    (/\ givenModel = "hsl"
     /\ IsValidHsl(given)
     /\ applied = <<transformColorModel_to("hwb")>>)
    => value = fromRgbToHwb(transformColorModel(given, "hsl", "rgb"))

DocumentedInitialModels == {"hex", "rgb", "hsl", "hwb"}

DocumentedWantedModels == {"hex", "rgb", "hsl"}

\* C27: transformColorModel converts without throwing every pair of an
\* initial model in {hex, rgb, hsl, hwb} and a different wanted model in
\* {hex, rgb, hsl}, and throws the 'Unsupported wanted color model' error only
\* for a wanted model outside {hex, rgb, hsl}.
C27_DocumentedPairsConvert ==
    \A wantedColorModel \in DocumentedWantedModels :
        (/\ givenModel \in DocumentedInitialModels
         /\ givenModel # wantedColorModel
         /\ applied = <<transformColorModel_to(wantedColorModel)>>)
        => (~Thrown(value) /\ valueModel = wantedColorModel)

\* C28: for every valid Rgb r, hexColorToRgb(transformColorModel(r, "rgb",
\* "hex")) equals r in all three channels.
C28_FunctionalHexRoundTrip ==
    (/\ givenModel = "rgb"
     /\ IsValidRgb(given)
     /\ applied = <<transformColorModel_to("hex"), "hexColorToRgb">>)
    => /\ value.red = given.red
       /\ value.green = given.green
       /\ value.blue = given.blue

(***************************************************************************)
(* video.functions: IntervalService.  setInterval returns a handle that    *)
(* no running timer has; other code of the page starts timers of its own.  *)
(***************************************************************************)
MaxHandle == 3

MaxIntervalCalls == 4

Handles == 1..MaxHandle

\* a number held where undefined can be held as well
Number(n) == [type |-> "number", value |-> n]

InitIntervals ==
    /\ class = "none"
    /\ MethodsIdle
    /\ ConverterIdle
    /\ CallersIdle
    /\ IntervalsIdle

\* what IntervalService.set and IntervalService.clear leave alone
IntervalService_unchanged ==
    /\ UNCHANGED <<class, given, givenModel, value, valueModel>>
    /\ UNCHANGED converterVars
    /\ UNCHANGED callerVars

\* IntervalService.set(milliseconds, callback): handle is what setInterval
\* returns
IntervalService_set(handle) ==
    /\ Len(applied) < MaxIntervalCalls
    /\ handle \notin timers
    /\ timers' = timers \cup {handle}
    /\ IntervalService_id' = Number(handle)
    /\ arrayOfIds' = Append(arrayOfIds, handle)
    /\ applied' = Append(applied, [name |-> "set", id |-> handle])
    /\ IntervalService_unchanged

\* a clear whose filter keeps the ids equal to actualId
IntervalService_clear_keepingEqual(id) ==
    LET found == \E i \in 1..Len(arrayOfIds) : arrayOfIds[i] = id
        kept(idNumber) == IF found THEN idNumber = id ELSE FALSE
    IN  /\ Len(applied) < MaxIntervalCalls
        /\ timers' = IF found THEN timers \ {id} ELSE timers
        /\ arrayOfIds' = SelectSeq(arrayOfIds, kept)
        /\ applied' = Append(applied, [name |-> "clear", id |-> id])
        /\ UNCHANGED IntervalService_id
        /\ IntervalService_unchanged

\* IntervalService.clear(id): actualId is id when find meets it in arrayOfIds
\* and undefined otherwise; clearInterval(undefined) stops no timer, and no
\* idNumber is undefined
IntervalService_clear(id) ==
    LET found == \E i \in 1..Len(arrayOfIds) : arrayOfIds[i] = id
        kept(idNumber) == IF found THEN idNumber # id ELSE TRUE
    IN  /\ Len(applied) < MaxIntervalCalls
        /\ timers' = IF found THEN timers \ {id} ELSE timers
        /\ arrayOfIds' = SelectSeq(arrayOfIds, kept)
        /\ applied' = Append(applied, [name |-> "clear", id |-> id])
        /\ UNCHANGED IntervalService_id
        /\ IntervalService_unchanged

\* setInterval called by other code, not through IntervalService
setInterval_elsewhere(handle) ==
    /\ handle \notin timers
    /\ timers' = timers \cup {handle}
    /\ UNCHANGED <<IntervalService_id, arrayOfIds, applied>>
    /\ IntervalService_unchanged

NextIntervals ==
    \/ \E handle \in Handles : IntervalService_set(handle)
    \/ \E id \in Handles : IntervalService_clear(id)
    \/ \E handle \in Handles : setInterval_elsewhere(handle)

SpecIntervals == InitIntervals /\ [][NextIntervals]_vars

\* the ids that the set calls of log returned and no later clear call of log
\* was given, in the order of the set calls
RECURSIVE Registered(_)
Registered(log) ==
    IF Len(log) = 0 THEN <<>>
    ELSE LET notCleared(idNumber) == idNumber # log[Len(log)].id
         IN  IF log[Len(log)].name = "set"
             THEN Append(Registered(SubSeq(log, 1, Len(log) - 1)), log[Len(log)].id)
             ELSE SelectSeq(Registered(SubSeq(log, 1, Len(log) - 1)), notCleared)

IsRegistered(id) == \E i \in 1..Len(arrayOfIds) : arrayOfIds[i] = id

\* C30: after any sequence of IntervalService.set and IntervalService.clear
\* calls, arrayOfIds holds exactly the ids returned by set and not since
\* passed to clear, in creation order; a clear of an id that is not in
\* arrayOfIds leaves arrayOfIds as it is and stops no registered interval.
C30_RegistryTracksCalls ==
    /\ [](arrayOfIds = Registered(applied))
    /\ [][(/\ Len(applied') = Len(applied) + 1
           /\ applied'[Len(applied')].name = "clear"
           /\ ~IsRegistered(applied'[Len(applied')].id))
          => /\ arrayOfIds' = arrayOfIds
             /\ \A id \in Handles : (IsRegistered(id) /\ id \in timers) => id \in timers']_vars

\* two intervals were set, the first was cleared and then cleared again
\* while other code has a timer of its own: the second is still registered
\* and running
C30_Witness ==
    /\ Len(applied) = 4
    /\ applied[1].name = "set"
    /\ applied[2].name = "set"
    /\ applied[3] = [name |-> "clear", id |-> applied[1].id]
    /\ applied[4] = [name |-> "clear", id |-> applied[1].id]
    /\ arrayOfIds = <<applied[2].id>>
    /\ applied[2].id \in timers
    /\ timers # {applied[2].id}

============================================================================
